---- MODULE Spec2Model ----
(***************************************************************************)
(* Model of src/dropSimulator.js: the drop-table cache, the acquisition    *)
(* steps of simulateKills, the quantity / rarity normalisation of the      *)
(* markup parser, the weighted selection and the exact simulation loop.    *)
(*                                                                         *)
(* Text is modelled as a sequence of one-character strings, so that the    *)
(* string functions of the source (trim, includes, split, parseInt,        *)
(* toLowerCase, replace) are computed and not assumed.                     *)
(* A number that the source keeps as a float (a rarity, a weight, a        *)
(* probability) is an exact fraction [num, den] with den > 0.              *)
(***************************************************************************)
EXTENDS Integers, Sequences, FiniteSets, TLC

VARIABLES
  pKind, pIn, pOut,       \* normalisation: which function, its inputs, its results
  sDrops, sRand, sRet,    \* weighted selection: the table, the random draw, the result
  simTable, simKillCount, \* runSimulation: dropData, killCount,
  simPhase, simI, simIdx, \*   the statement reached, the loop variable i, the entry or roll reached,
  loot, uniqueDrops,      \*   and the two accumulators
  now,                    \* Date.now(), in milliseconds
  dropCache,              \* the Map, as its entries [key, data, timestamp] in insertion order
  sweepDue,               \* the clock reading from which the interval timer may fire next
  calls,                  \* the simulateKills invocations in flight, one per caller
  started                 \* how many invocations were started

parseVars == <<pKind, pIn, pOut>>
selVars == <<sDrops, sRand, sRet>>
simVars == <<simTable, simKillCount, simPhase, simI, simIdx, loot, uniqueDrops>>
cacheVars == <<now, dropCache, sweepDue, calls, started>>
vars == <<pKind, pIn, pOut, sDrops, sRand, sRet,
          simTable, simKillCount, simPhase, simI, simIdx, loot, uniqueDrops,
          now, dropCache, sweepDue, calls, started>>

(***************************************************************************)
(* Bounds of the explored inputs.                                          *)
(***************************************************************************)
MaxNum == 12          \* numbers rendered into "a-b" and "n/d" texts are 0..MaxNum
MaxTextLen == 3       \* free texts over TextAlphabet have at most this length
RandDen == 4          \* Math.random() returns one of 0/RandDen .. (RandDen-1)/RandDen
MaxDrops == 3         \* a sequence of a generated drop table has at most this many drops
MaxKills == 2         \* kill counts of the simulated generated tables are 1..MaxKills
MaxAlways == 2        \* the `always` sequence of a generated table has at most this many drops
MaxCalls == 2         \* simulateKills is invoked at most this many times in a behaviour

(***************************************************************************)
(* Constants of the program (src/dropSimulator.js 3-5).                    *)
(***************************************************************************)
CACHE_DURATION == 60 * 60 * 1000
MAX_CACHE_SIZE == 100
CLEANUP_INTERVAL == 10 * 60 * 1000

(***************************************************************************)
(* Text helpers.                                                           *)
(***************************************************************************)
Min2(a, b) == IF a <= b THEN a ELSE b
Max2(a, b) == IF a >= b THEN a ELSE b

DigitChars == <<"0", "1", "2", "3", "4", "5", "6", "7", "8", "9">>
IsDigit(c) == \E i \in 1..10 : DigitChars[i] = c
DigitVal(c) == (CHOOSE i \in 1..10 : DigitChars[i] = c) - 1

\* the white space of \s and of trim(); the explored texts use the blank only
IsSpace(c) == c = " "

UpperChars == <<"A","B","C","D","E","F","G","H","I","J","K","L","M",
                "N","O","P","Q","R","S","T","U","V","W","X","Y","Z">>
LowerChars == <<"a","b","c","d","e","f","g","h","i","j","k","l","m",
                "n","o","p","q","r","s","t","u","v","w","x","y","z">>

\* String.prototype.toLowerCase
toLowerCase(s) ==
  [i \in 1..Len(s) |->
     IF \E k \in 1..26 : UpperChars[k] = s[i]
       THEN LowerChars[CHOOSE k \in 1..26 : UpperChars[k] = s[i]]
       ELSE s[i]]

\* String.prototype.trim
trim(s) ==
  IF \A i \in 1..Len(s) : IsSpace(s[i]) THEN <<>>
  ELSE LET lo == CHOOSE i \in 1..Len(s) :
                   ~IsSpace(s[i]) /\ \A j \in 1..(i-1) : IsSpace(s[j])
           hi == CHOOSE i \in 1..Len(s) :
                   ~IsSpace(s[i]) /\ \A j \in (i+1)..Len(s) : IsSpace(s[j])
       IN SubSeq(s, lo, hi)

\* String.prototype.includes
includes(s, sub) ==
  \E i \in 0..(Len(s) - Len(sub)) : SubSeq(s, i + 1, i + Len(sub)) = sub

\* String.prototype.split on a one-character separator
RECURSIVE split(_, _)
split(s, sep) ==
  IF \A i \in 1..Len(s) : s[i] # sep THEN <<s>>
  ELSE LET k == CHOOSE i \in 1..Len(s) : s[i] = sep /\ \A j \in 1..(i-1) : s[j] # sep
       IN <<SubSeq(s, 1, k - 1)>> \o split(SubSeq(s, k + 1, Len(s)), sep)

\* decimal rendering of a natural number
RECURSIVE ToStr(_)
ToStr(n) == IF n < 10 THEN <<DigitChars[n + 1]>>
            ELSE ToStr(n \div 10) \o <<DigitChars[(n % 10) + 1]>>

(***************************************************************************)
(* parseInt(text), radix 10: leading white space is skipped, an optional   *)
(* sign is read, then the longest run of digits; no digit gives NaN.       *)
(* The result is [nan, val]; val is 0 when nan.                            *)
(* (The explored texts hold no "0x" prefix, so radix detection is out.)    *)
(***************************************************************************)
NaN == [nan |-> TRUE, val |-> 0]
Num(v) == [nan |-> FALSE, val |-> v]

RECURSIVE DigitsValue(_, _)
\* value of the longest digit prefix of s, continuing from the value acc
DigitsValue(s, acc) ==
  IF Len(s) = 0 \/ ~IsDigit(s[1]) THEN acc
  ELSE DigitsValue(Tail(s), 10 * acc + DigitVal(s[1]))

RECURSIVE SkipSpace(_)
SkipSpace(s) == IF Len(s) > 0 /\ IsSpace(s[1]) THEN SkipSpace(Tail(s)) ELSE s

parseInt(text) ==
  LET t == SkipSpace(text)
      neg == Len(t) > 0 /\ t[1] = "-"
      body == IF Len(t) > 0 /\ t[1] \in {"-", "+"} THEN Tail(t) ELSE t
  IN IF Len(body) = 0 \/ ~IsDigit(body[1]) THEN NaN
     ELSE Num(IF neg THEN 0 - DigitsValue(body, 0) ELSE DigitsValue(body, 0))

\* JavaScript `x || d` on a parseInt result: NaN and 0 are falsy
OrDefault(p, d) == IF p.nan \/ p.val = 0 THEN d ELSE p.val

(***************************************************************************)
(* quantityStr.replace(/\s*\([^)]+\)/g, ''): every leftmost match of        *)
(* optional white space, "(", one or more characters other than ")", ")"   *)
(* is removed; scanning resumes after the match.                           *)
(***************************************************************************)
\* length of the match that starts at the head of s, 0 when there is none
NoteMatchLen(s) ==
  LET sp == Len(s) - Len(SkipSpace(s))
      r == SkipSpace(s)
  IN IF Len(r) >= 3 /\ r[1] = "(" /\ r[2] # ")" /\ \E k \in 3..Len(r) : r[k] = ")"
       THEN sp + (CHOOSE k \in 3..Len(r) : r[k] = ")" /\ \A j \in 2..(k-1) : r[j] # ")")
       ELSE 0

RECURSIVE StripNotes(_)
StripNotes(s) ==
  IF Len(s) = 0 THEN <<>>
  ELSE IF NoteMatchLen(s) > 0 THEN StripNotes(SubSeq(s, NoteMatchLen(s) + 1, Len(s)))
  ELSE <<s[1]>> \o StripNotes(Tail(s))

(***************************************************************************)
(* parseQuantity (src/dropSimulator.js 355-379).                           *)
(***************************************************************************)
Range(lo, hi) == [min |-> lo, max |-> hi]

\* (mutant) the lower end read without its default of 1
QuantityMinNoDefault(part) == parseInt(part).val

\* the `parseInt(parts[0]) || 1` of line 367
QuantityMin(part) == OrDefault(parseInt(part), 1)

\* (mutant) the two ends returned in the order they were written
RangeAsWritten(min, max) == Range(min, max)

\* the `{ min: Math.min(min, max), max: Math.max(min, max) }` of line 369
NormaliseRange(min, max) == Range(Min2(min, max), Max2(min, max))

parseQuantity(quantityStr) ==
  IF Len(quantityStr) = 0 THEN Range(1, 1)
  ELSE LET cleaned == trim(StripNotes(quantityStr))
       IN IF Len(cleaned) = 0 THEN Range(1, 1)
          ELSE IF includes(cleaned, <<"-">>)
            THEN LET parts == split(cleaned, "-")
                     min == QuantityMin(parts[1])
                     max == OrDefault(parseInt(parts[2]), min)
                 IN NormaliseRange(min, max)
            ELSE LET qty == OrDefault(parseInt(cleaned), 1)
                 IN Range(qty, qty)

(***************************************************************************)
(* parseRarity (src/dropSimulator.js 381-421).                             *)
(***************************************************************************)
Rat(n, d) == [num |-> n, den |-> d]
RatEq(a, b) == a.num * b.den = b.num * a.den

\* own keys of rarityMap (lines 406-413)
RarityMapKeys ==
  { <<"a","l","w","a","y","s">>, <<"c","o","m","m","o","n">>,
    <<"u","n","c","o","m","m","o","n">>, <<"r","a","r","e">>,
    <<"v","e","r","y"," ","r","a","r","e">>, <<"v","e","r","y","_","r","a","r","e">> }

RarityMapOwn(key) ==
  CASE key = <<"a","l","w","a","y","s">> -> 1
    [] key = <<"c","o","m","m","o","n">> -> 8
    [] key = <<"u","n","c","o","m","m","o","n">> -> 32
    [] key = <<"r","a","r","e">> -> 128
    [] key = <<"v","e","r","y"," ","r","a","r","e">> -> 512
    [] key = <<"v","e","r","y","_","r","a","r","e">> -> 512

\* rarityMap is an object literal: a key it does not own is looked up on
\* Object.prototype, whose all-lower-case property names are these two
InheritedKeys ==
  { <<"c","o","n","s","t","r","u","c","t","o","r">>,
    <<"_","_","p","r","o","t","o","_","_">> }

\* what an inherited key yields: an object, which is truthy and no number
InheritedValue(key) == [object |-> key]

\* (mutant) the fraction n/d read as the probability n/d itself
FractionAsProbability(numerator, denominator) == Rat(numerator, denominator)

\* the `denominator / numerator` of line 394
FractionRarity(numerator, denominator) == Rat(denominator, numerator)

\* (mutant) a text that names no bucket defaults to common
LookupDefaultCommon(key) ==
  IF key \in RarityMapKeys THEN Rat(RarityMapOwn(key), 1)
  ELSE IF key \in InheritedKeys THEN InheritedValue(key)
  ELSE Rat(8, 1)

\* the `rarityMap[lowerRarity] || 128` of line 416
RarityMapLookup(key) ==
  IF key \in RarityMapKeys THEN Rat(RarityMapOwn(key), 1)
  ELSE IF key \in InheritedKeys THEN InheritedValue(key)
  ELSE Rat(128, 1)

parseRarity(rarityStr) ==
  IF Len(rarityStr) = 0 THEN Rat(128, 1)
  ELSE LET cleaned == trim(rarityStr)
           parts == split(cleaned, "/")
           numerator == OrDefault(parseInt(parts[1]), 1)
           denominator == OrDefault(parseInt(parts[2]), 1)
           numericValue == parseInt(cleaned)
       IN IF includes(cleaned, <<"/">>) /\ denominator > 0 /\ numerator > 0
            THEN FractionRarity(numerator, denominator)
          ELSE IF ~numericValue.nan /\ numericValue.val > 0
            THEN Rat(numericValue.val, 1)
          ELSE RarityMapLookup(toLowerCase(cleaned))

(***************************************************************************)
(* Exact fractions.                                                        *)
(***************************************************************************)
RECURSIVE Gcd(_, _)
Gcd(a, b) == IF b = 0 THEN a ELSE Gcd(b, a % b)
Abs(a) == IF a < 0 THEN 0 - a ELSE a

\* lowest terms, positive denominator
Norm(n, d) ==
  LET g == Gcd(Abs(n), Abs(d))
      sg == IF d < 0 THEN 0 - 1 ELSE 1
  IN Rat(sg * (n \div g), sg * (d \div g))

RAdd(a, b) == Norm(a.num * b.den + b.num * a.den, a.den * b.den)
RSub(a, b) == Norm(a.num * b.den - b.num * a.den, a.den * b.den)
RMul(a, b) == Norm(a.num * b.num, a.den * b.den)
RDiv(a, b) == Norm(a.num * b.den, a.den * b.num)
RLt(a, b) == a.num * b.den < b.num * a.den
RLe(a, b) == a.num * b.den <= b.num * a.den
Zero == Rat(0, 1)

\* the values Math.random() is explored on: k / RandDen, in [0, 1)
RandomDraws == {Rat(k, RandDen) : k \in 0..(RandDen - 1)}

(***************************************************************************)
(* A Drop, as parseSection / parseMainDropTable build it (lines 269-274,   *)
(* 330-335): the item, the parsed quantity and rarity, the rarity text.    *)
(***************************************************************************)
Drop(item, quantity, rarity, rarityText) ==
  [item |-> item, quantity |-> quantity, rarity |-> rarity, rarityText |-> rarityText]

ParsedDrop(itemName, quantityText, rarityText) ==
  Drop(itemName, parseQuantity(quantityText), parseRarity(rarityText), rarityText)

(***************************************************************************)
(* selectWeightedDrop (src/dropSimulator.js 631-669).  `r` is the value    *)
(* Math.random() returns at line 658.                                      *)
(***************************************************************************)
Null == [null |-> TRUE]

\* lines 639-647: the numerator of a fraction text, else 1000 / rarity
DropWeight(drop) ==
  IF includes(drop.rarityText, <<"/">>)
    THEN Rat(OrDefault(parseInt(split(drop.rarityText, "/")[1]), 1), 1)
    ELSE RDiv(Rat(1000, 1), drop.rarity)

RECURSIVE WeightSum(_, _, _)
\* the sum of the weights of drops[lo..hi]; the arithmetic is exact, so the
\* order of the additions is immaterial and the sum is split in halves
WeightSum(drops, lo, hi) ==
  IF lo > hi THEN Zero
  ELSE IF lo = hi THEN DropWeight(drops[lo])
  ELSE LET mid == (lo + hi) \div 2
       IN RAdd(WeightSum(drops, lo, mid), WeightSum(drops, mid + 1, hi))

\* line 653
TotalWeight(drops) == WeightSum(drops, 1, Len(drops))

\* (mutant) the scan stops only once the remainder is below zero
StopsBelowZero(random) == RLt(random, Zero)

\* the `random <= 0` of line 662
StopsAt(random) == RLe(random, Zero)

\* the value of `random` after the weights of drops[1..i] were subtracted (line 661)
RemainderAfter(drops, i, random) == RSub(random, WeightSum(drops, 1, i))

\* lines 660-668: the first drop, in sequence order, at which the remainder
\* is <= 0; the last drop when the scan runs out
WeightedScan(drops, random) ==
  LET stops == {i \in 1..Len(drops) : StopsAt(RemainderAfter(drops, i, random))}
  IN IF stops = {} THEN drops[Len(drops)]
     ELSE drops[CHOOSE i \in stops : \A j \in stops : i <= j]

selectWeightedDrop(drops, r) ==
  IF Len(drops) = 0 THEN Null
  ELSE IF Len(drops) = 1 THEN drops[1]
  ELSE IF TotalWeight(drops) = Zero THEN drops[1]
  ELSE WeightedScan(drops, RMul(r, TotalWeight(drops)))

\* a DropTable (lines 153-163)
Table(name, always, main, uniques, tertiary, rolls, chance) ==
  [ name |-> name, mainTableRolls |-> rolls, uniqueTableChance |-> chance,
    always |-> always, uniques |-> uniques, main |-> main, tertiary |-> tertiary ]

(***************************************************************************)
(* The fallback catalog (src/dropSimulator.js 671-765).                    *)
(***************************************************************************)
\* the King Black Dragon table of getFallbackDropData (lines 681-700)
KingBlackDragonDrops ==
  [ name |-> <<"K","i","n","g"," ","B","l","a","c","k"," ","D","r","a","g","o","n">>,
    mainTableRolls |-> 1,
    uniqueTableChance |-> Null,
    always |-> <<
      Drop("Dragon bones", Range(1, 1), Rat(1, 1), <<"A","l","w","a","y","s">>) >>,
    uniques |-> <<
      Drop("Dragon pickaxe", Range(1, 1), Rat(1500, 1), <<"1","/","1","5","0","0">>),
      Drop("Kbd heads", Range(1, 1), Rat(128, 1), <<"1","/","1","2","8">>) >>,
    main |-> <<
      Drop("Coins", Range(1000, 6000), Rat(4, 1), <<"C","o","m","m","o","n">>),
      Drop("Adamant platebody", Range(1, 1), Rat(64, 1), <<"U","n","c","o","m","m","o","n">>),
      Drop("Rune longsword", Range(1, 1), Rat(64, 1), <<"U","n","c","o","m","m","o","n">>) >>,
    tertiary |-> <<
      Drop("Clue scroll (elite)", Range(1, 1), Rat(450, 1), <<"1","/","4","5","0">>) >> ]

\* getCerberusHardcodedDrops (lines 707-765)
getCerberusHardcodedDrops ==
  [ name |-> <<"C","e","r","b","e","r","u","s">>,
    mainTableRolls |-> 2,
    uniqueTableChance |-> Rat(1, 130),
    always |-> <<
      Drop("Infernal ashes", Range(1, 1), Rat(1, 1), <<"A","l","w","a","y","s">>) >>,
    uniques |-> <<
      Drop("Primordial crystal", Range(1, 1), Rat(520, 1), <<"1","/","5","2","0">>),
      Drop("Pegasian crystal", Range(1, 1), Rat(520, 1), <<"1","/","5","2","0">>),
      Drop("Eternal crystal", Range(1, 1), Rat(520, 1), <<"1","/","5","2","0">>),
      Drop("Smouldering stone", Range(1, 1), Rat(520, 1), <<"1","/","5","2","0">>) >>,
    main |-> <<
      Drop("Rune platebody", Range(1, 1), Rat(26, 1), <<"5","/","1","3","0">>),
      Drop("Rune chainbody", Range(1, 1), Rat(65, 2), <<"4","/","1","3","0">>),
      Drop("Rune 2h sword", Range(1, 1), Rat(65, 2), <<"4","/","1","3","0">>),
      Drop("Black d'hide body", Range(1, 1), Rat(4333, 100), <<"3","/","1","3","0">>),
      Drop("Rune axe", Range(1, 1), Rat(4333, 100), <<"3","/","1","3","0">>),
      Drop("Rune pickaxe", Range(1, 1), Rat(4333, 100), <<"3","/","1","3","0">>),
      Drop("Battlestaff", Range(6, 6), Rat(4333, 100), <<"3","/","1","3","0">>),
      Drop("Rune full helm", Range(1, 1), Rat(4333, 100), <<"3","/","1","3","0">>),
      Drop("Lava battlestaff", Range(1, 1), Rat(65, 1), <<"2","/","1","3","0">>),
      Drop("Rune halberd", Range(1, 1), Rat(65, 1), <<"2","/","1","3","0">>),
      Drop("Fire rune", Range(300, 300), Rat(2167, 100), <<"6","/","1","3","0">>),
      Drop("Soul rune", Range(100, 100), Rat(2167, 100), <<"6","/","1","3","0">>),
      Drop("Pure essence", Range(300, 300), Rat(26, 1), <<"5","/","1","3","0">>),
      Drop("Blood rune", Range(60, 60), Rat(65, 2), <<"4","/","1","3","0">>),
      Drop("Cannonball", Range(50, 50), Rat(65, 2), <<"4","/","1","3","0">>),
      Drop("Runite bolts (unf)", Range(40, 40), Rat(65, 2), <<"4","/","1","3","0">>),
      Drop("Death rune", Range(100, 100), Rat(4333, 100), <<"3","/","1","3","0">>),
      Drop("Coal", Range(120, 120), Rat(2167, 100), <<"6","/","1","3","0">>),
      Drop("Super restore(4)", Range(2, 2), Rat(2167, 100), <<"6","/","1","3","0">>),
      Drop("Summer pie", Range(3, 3), Rat(2167, 100), <<"6","/","1","3","0">>),
      Drop("Coins", Range(10000, 20000), Rat(26, 1), <<"5","/","1","3","0">>),
      Drop("Dragon bones", Range(20, 20), Rat(26, 1), <<"5","/","1","3","0">>),
      Drop("Unholy symbol", Range(1, 1), Rat(26, 1), <<"5","/","1","3","0">>),
      Drop("Wine of zamorak", Range(15, 15), Rat(26, 1), <<"5","/","1","3","0">>),
      Drop("Ashes", Range(50, 50), Rat(65, 2), <<"4","/","1","3","0">>),
      Drop("Fire orb", Range(20, 20), Rat(65, 2), <<"4","/","1","3","0">>),
      Drop("Grimy torstol", Range(6, 6), Rat(65, 2), <<"4","/","1","3","0">>),
      Drop("Runite ore", Range(5, 5), Rat(4333, 100), <<"3","/","1","3","0">>),
      Drop("Uncut diamond", Range(5, 5), Rat(4333, 100), <<"3","/","1","3","0">>),
      Drop("Torstol seed", Range(3, 3), Rat(65, 1), <<"2","/","1","3","0">>),
      Drop("Ranarr seed", Range(2, 2), Rat(65, 1), <<"2","/","1","3","0">>),
      Drop("Key master teleport", Range(7, 7), Rat(65, 1), <<"2","/","1","3","0">>) >>,
    tertiary |-> <<
      Drop("Ensouled hellhound head", Range(1, 1), Rat(15, 1), <<"1","/","1","5">>),
      Drop("Clue scroll (elite)", Range(1, 1), Rat(100, 1), <<"1","/","1","0","0">>),
      Drop("Jar of souls", Range(1, 1), Rat(2000, 1), <<"1","/","2","0","0","0">>),
      Drop("Hellpuppy", Range(1, 1), Rat(3000, 1), <<"1","/","3","0","0","0">>) >> ]


\* getFallbackDropData (lines 672-704)
getFallbackDropData(monsterName) ==
  LET name == toLowerCase(monsterName)
  IN IF includes(name, <<"c","e","r","b","e","r","u","s">>)
       THEN getCerberusHardcodedDrops
     ELSE IF \/ includes(name, <<"k","b","d">>)
             \/ includes(name, <<"k","i","n","g"," ","b","l","a","c","k"," ",
                                 "d","r","a","g","o","n">>)
       THEN KingBlackDragonDrops
     ELSE Null

(***************************************************************************)
(* runSimulation, exact loop (src/dropSimulator.js 423-508), and its       *)
(* helpers getRandomQuantity (620-625) and addToLoot (627-629).            *)
(* Every Math.random() call is a choice from RandomDraws.                  *)
(***************************************************************************)
\* Math.floor(r * n) for a draw r and a natural n
FloorTimes(r, n) == (r.num * n) \div r.den

getRandomQuantity(quantity, r) ==
  IF quantity.min = quantity.max THEN quantity.min
  ELSE FloorTimes(r, quantity.max - quantity.min + 1) + quantity.min

\* (mutant) the entry is overwritten instead of added to
addToLootOverwrite(l, item, quantity) ==
  [k \in DOMAIN l \cup {item} |-> IF k = item THEN quantity ELSE l[k]]

addToLoot(l, item, quantity) ==
  IF item \in DOMAIN l THEN [l EXCEPT ![item] = @ + quantity]
  ELSE [k \in DOMAIN l \cup {item} |-> IF k = item THEN quantity ELSE l[k]]

UniqueEvent(drop, killNumber) ==
  [item |-> drop.item, killNumber |-> killNumber, rarity |-> drop.rarityText]

\* `dropData.mainTableRolls || 1` (line 444)
RollCount(dropData) == IF dropData.mainTableRolls = 0 THEN 1 ELSE dropData.mainTableRolls

\* `dropData.uniqueTableChance && dropData.uniques.length > 0` (line 455)
UsesUniqueTable(dropData) ==
  /\ dropData.uniqueTableChance # Null
  /\ dropData.uniqueTableChance # Zero
  /\ Len(dropData.uniques) > 0

\* `Math.random() < 1/rarity` (lines 472, 486)
RollsUnder(r, rarity) == RLt(r, RDiv(Rat(1, 1), rarity))

\* number of steps of each part of the loop body, in the order of the source
PhaseOrder == <<"always", "main", "unique", "tertiary">>
PhaseSteps(dropData, phase) ==
  CASE phase = "always" -> Len(dropData.always)
    [] phase = "main" -> RollCount(dropData)
    [] phase = "unique" -> IF UsesUniqueTable(dropData) THEN 1 ELSE Len(dropData.uniques)
    [] phase = "tertiary" -> Len(dropData.tertiary)

PhaseIndex(phase) == CHOOSE k \in 1..4 : PhaseOrder[k] = phase

RECURSIVE FirstStepFrom(_, _)
\* the first part, from the k-th on, that has a step; "endkill" when none has
FirstStepFrom(dropData, k) ==
  IF k > 4 THEN "endkill"
  ELSE IF PhaseSteps(dropData, PhaseOrder[k]) > 0 THEN PhaseOrder[k]
  ELSE FirstStepFrom(dropData, k + 1)

\* control after step idx of part phase
AfterStep(phase, idx) ==
  IF idx < PhaseSteps(simTable, phase)
    THEN /\ simPhase' = phase
         /\ simIdx' = idx + 1
    ELSE /\ simPhase' = FirstStepFrom(simTable, PhaseIndex(phase) + 1)
         /\ simIdx' = 1

(***************************************************************************)
(* runOptimizedSimulation (src/dropSimulator.js 510-618), used when        *)
(* killCount > 1000.  Square roots are not computed: Math.round(e + (r -   *)
(* 0.5) * Math.sqrt(e)) is the greatest integer n with                     *)
(* n - e - 1/2 <= (r - 1/2) * sqrt(e), decided by comparing squares.       *)
(***************************************************************************)
\* (mutant) the threshold itself already selects the approximation
UsesOptimizedFromThreshold(killCount) == killCount >= 1000

\* `killCount > 1000` (line 430)
UsesOptimized(killCount) == killCount > 1000

\* Math.round of a fraction: floor(q + 1/2)
Round(q) == (2 * q.num + q.den) \div (2 * q.den)

\* (drop.quantity.min + drop.quantity.max) / 2 (lines 515, 545, 594)
AvgQuantity(drop) == Norm(drop.quantity.min + drop.quantity.max, 2)

\* a <= c * sqrt(e), for fractions a, c and e >= 0
LeTimesSqrt(a, c, e) ==
  IF RLe(Zero, c)
    THEN RLe(a, Zero) \/ RLe(RMul(a, a), RMul(RMul(c, c), e))
    ELSE RLe(a, Zero) /\ RLe(RMul(RMul(c, c), e), RMul(a, a))

\* the integer part of sqrt(e), for a fraction e >= 0
FloorSqrt(e) ==
  CHOOSE k \in 0..((e.num \div e.den) + 1) :
    k * k * e.den <= e.num /\ (k + 1) * (k + 1) * e.den > e.num

\* Math.round(expectedDrops + (Math.random() - 0.5) * Math.sqrt(expectedDrops))
\* (lines 542, 572, 591); NaN for a negative expectation, which runs no loop
\* and fails `actualDrops > 0`, is given as 0
ActualDrops(expectedDrops, r) ==
  IF RLt(expectedDrops, Zero) THEN 0
  ELSE LET c == RSub(r, Rat(1, 2))
           Reached(n) ==
             LeTimesSqrt(RSub(RSub(Rat(n, 1), expectedDrops), Rat(1, 2)), c, expectedDrops)
           whole == expectedDrops.num \div expectedDrops.den
           root == FloorSqrt(expectedDrops)
       IN CHOOSE n \in Max2(0, whole - root - 1)..(whole + root + 2) :
            Reached(n) /\ ~Reached(n + 1)

\* (mutant) the random kill number is left zero-based
RandomKillIndex(r, killCount) == FloorTimes(r, killCount)

\* Math.floor(Math.random() * killCount) + 1 (lines 578, 601)
RandomKillNumber(r, killCount) == FloorTimes(r, killCount) + 1

\* (mutant) every awarded tertiary drop is tracked
TracksEveryTertiary(drop) == TRUE

\* `drop.rarity >= 1000` (lines 491, 599)
TracksTertiary(drop) == RLe(Rat(1000, 1), drop.rarity)

\* lines 540-541: the expected number of drops of main[k]
ExpectedMainDrops(dropData, killCount, k) ==
  RMul(Rat(killCount * RollCount(dropData), 1),
       RDiv(DropWeight(dropData.main[k]), TotalWeight(dropData.main)))

\* killCount / drop.rarity (lines 571, 590)
ExpectedRareDrops(killCount, drop) == RDiv(Rat(killCount, 1), drop.rarity)

\* totalQuantity of lines 516, 546, 595
TotalQuantity(drop, count) == Round(RMul(AvgQuantity(drop), Rat(count, 1)))

\* the events of lines 574-584 and 600-607: one per draw, in order
RECURSIVE RandomEvents(_, _, _)
RandomEvents(drop, killDraws, killCount) ==
  IF Len(killDraws) = 0 THEN <<>>
  ELSE <<UniqueEvent(drop, RandomKillNumber(killDraws[1], killCount))>>
         \o RandomEvents(drop, Tail(killDraws), killCount)

\* lines 574-576: the quantities of the awarded uniques, one per draw
RECURSIVE DrawnQuantities(_, _)
DrawnQuantities(quantity, draws) ==
  IF Len(draws) = 0 THEN 0
  ELSE getRandomQuantity(quantity, draws[1]) + DrawnQuantities(quantity, Tail(draws))

\* the parts of runOptimizedSimulation, in the order of the source
OptPhaseOrder == <<"optAlways", "optMain", "optUnique", "optTertiary">>
OptPhaseSteps(dropData, phase) ==
  CASE phase = "optAlways" -> Len(dropData.always)
    [] phase = "optMain" -> Len(dropData.main)
    [] phase = "optUnique" -> IF UsesUniqueTable(dropData) THEN 1 ELSE Len(dropData.uniques)
    [] phase = "optTertiary" -> Len(dropData.tertiary)

OptPhaseIndex(phase) == CHOOSE k \in 1..4 : OptPhaseOrder[k] = phase

RECURSIVE OptFirstStepFrom(_, _)
\* the first part, from the k-th on, that has a step; "done" when none has
OptFirstStepFrom(dropData, k) ==
  IF k > 4 THEN "done"
  ELSE IF OptPhaseSteps(dropData, OptPhaseOrder[k]) > 0 THEN OptPhaseOrder[k]
  ELSE OptFirstStepFrom(dropData, k + 1)

\* control after step idx of part phase
OptAfterStep(phase, idx) ==
  IF idx < OptPhaseSteps(simTable, phase)
    THEN /\ simPhase' = phase
         /\ simIdx' = idx + 1
    ELSE /\ simPhase' = OptFirstStepFrom(simTable, OptPhaseIndex(phase) + 1)
         /\ simIdx' = 1

(***************************************************************************)
(* parseDropTables (src/dropSimulator.js 152-257).  The markup is modelled *)
(* by what the section and line patterns extract from it: the DropsLine    *)
(* lines of the 100%, Uniques and Tertiary sections, the lines outside     *)
(* them, the rate text captured by the unique-table patterns and the count *)
(* text captured by the main-rolls pattern (<<>> when a pattern finds      *)
(* nothing, else <<text>>).  Lines are in the primary {{DropsLine|...}}    *)
(* form.                                                                   *)
(***************************************************************************)
Line(name, quantity, rarity) == [name |-> name, quantity |-> quantity, rarity |-> rarity]

Markup(always, uniques, tertiary, other, uniqueRate, rolls) ==
  [ always |-> always, uniques |-> uniques, tertiary |-> tertiary, other |-> other,
    uniqueRate |-> uniqueRate, rolls |-> rolls ]

\* parseSection (lines 259-282), primary pattern
parseSection(lines) ==
  [k \in 1..Len(lines) |-> ParsedDrop(lines[k].name, lines[k].quantity, lines[k].rarity)]

HasItem(drops, itemName) == \E k \in 1..Len(drops) : drops[k].item = itemName

\* every DropsLine of the document, as patterns.dropsLine meets them (line 320)
AllLines(wikiContent) ==
  wikiContent.always \o wikiContent.uniques \o wikiContent.tertiary \o wikiContent.other

RECURSIVE MainFrom(_, _, _, _)
\* parseMainDropTable (lines 314-339): a line is skipped when its item is
\* already in always, uniques or tertiary
MainFrom(lines, always, uniques, tertiary) ==
  IF Len(lines) = 0 THEN <<>>
  ELSE LET l == lines[1]
           rest == MainFrom(Tail(lines), always, uniques, tertiary)
       IN IF HasItem(always, l.name) \/ HasItem(uniques, l.name) \/ HasItem(tertiary, l.name)
            THEN rest
            ELSE <<ParsedDrop(l.name, l.quantity, l.rarity)>> \o rest

\* lines 217-229; the match is <<>> when no pattern matches, else <<rateStr>>
ParsedUniqueChance(uniqueTableMatch) ==
  IF Len(uniqueTableMatch) = 1 /\ includes(uniqueTableMatch[1], <<"/">>)
    THEN LET num == parseInt(split(uniqueTableMatch[1], "/")[1])
             denom == parseInt(split(uniqueTableMatch[1], "/")[2])
         IN IF ~num.nan /\ ~denom.nan /\ num.val > 0 /\ denom.val > 0
              THEN Norm(num.val, denom.val)
              ELSE Null
    ELSE Null

\* lines 232-235; the match is <<>> when the pattern does not match
ParsedRolls(mainRollsMatch) ==
  IF Len(mainRollsMatch) = 1 THEN OrDefault(parseInt(mainRollsMatch[1]), 1) ELSE 1

IsCerberus(monsterName) ==
  includes(toLowerCase(monsterName), <<"c","e","r","b","e","r","u","s">>)

parseDropTables(wikiContent, monsterName) ==
  LET always == parseSection(wikiContent.always)
      uniques == parseSection(wikiContent.uniques)
      tertiary == parseSection(wikiContent.tertiary)
      chance == ParsedUniqueChance(wikiContent.uniqueRate)
      rolls == ParsedRolls(wikiContent.rolls)
      main == MainFrom(AllLines(wikiContent), always, uniques, tertiary)
      drops == [ name |-> monsterName,
                 mainTableRolls |-> IF IsCerberus(monsterName) THEN 2 ELSE rolls,
                 uniqueTableChance |->
                   IF IsCerberus(monsterName) /\ chance = Null THEN Rat(1, 130) ELSE chance,
                 always |-> always, uniques |-> uniques, main |-> main,
                 tertiary |-> tertiary ]
  IN IF Len(always) = 0 /\ Len(main) = 0 /\ Len(uniques) = 0
          /\ getFallbackDropData(monsterName) # Null
       THEN getFallbackDropData(monsterName)
       ELSE drops

(***************************************************************************)
(* The cache (src/dropSimulator.js 1-45).                                  *)
(***************************************************************************)
Entry(key, data, timestamp) == [key |-> key, data |-> data, timestamp |-> timestamp]

HasKey(cache, key) == \E k \in 1..Len(cache) : cache[k].key = key

\* dropCache.get(key); asked only when the key is present
CacheGet(cache, key) == cache[CHOOSE k \in 1..Len(cache) : cache[k].key = key]

\* (mutant) every set adds an entry, also for a key already present
CacheAppend(cache, key, data, timestamp) == Append(cache, Entry(key, data, timestamp))

\* dropCache.set(key, value): an existing key keeps its place in the order
CacheSet(cache, key, data, timestamp) ==
  IF HasKey(cache, key)
    THEN [k \in 1..Len(cache) |->
            IF cache[k].key = key THEN Entry(key, data, timestamp) ELSE cache[k]]
    ELSE Append(cache, Entry(key, data, timestamp))

\* dropCache.delete(key)
CacheDelete(cache, key) == SelectSeq(cache, LAMBDA e : e.key # key)

\* (mutant) the sweep keeps an entry aged exactly CACHE_DURATION
cleanupOlderOnly(cache, t) ==
  SelectSeq(cache, LAMBDA e : ~(t - e.timestamp > CACHE_DURATION))

\* cleanupExpiredCache (lines 12-27)
cleanupExpiredCache(cache, t) ==
  SelectSeq(cache, LAMBDA e : ~(t - e.timestamp >= CACHE_DURATION))

\* the `value.timestamp < oldestTime` of line 35
Older(timestamp, oldestTime) == timestamp < oldestTime

\* lines 31-39: oldestTime starts at Date.now(); the scan keeps the first
\* entry, in iteration order, of the least timestamp below it
OldestIndex(cache, t) ==
  LET below == {k \in 1..Len(cache) : Older(cache[k].timestamp, t)}
  IN IF below = {} THEN 0
     ELSE CHOOSE k \in below :
            /\ \A j \in below : cache[k].timestamp <= cache[j].timestamp
            /\ \A j \in below : j < k => cache[k].timestamp < cache[j].timestamp

\* evictLRUEntry (lines 29-45); `if (oldestKey)` is false for null and for ""
evictLRUEntry(cache, t) ==
  IF OldestIndex(cache, t) # 0 /\ cache[OldestIndex(cache, t)].key # <<>>
    THEN CacheDelete(cache, cache[OldestIndex(cache, t)].key)
    ELSE cache

\* lines 113-120 and 128-135: the size check, the eviction, the set
CachePut(cache, key, data, t) ==
  CacheSet(IF Len(cache) >= MAX_CACHE_SIZE THEN evictLRUEntry(cache, t) ELSE cache,
           key, data, t)

\* (mutant) a lookup that finds an expired entry deletes it
LookupDropsExpired(cache, key, t) ==
  IF HasKey(cache, key) /\ t - CacheGet(cache, key).timestamp >= CACHE_DURATION
    THEN CacheDelete(cache, key)
    ELSE cache

\* the cache after lines 50-54: dropCache.get and the test of the timestamp
\* write nothing, on a hit and on a miss
CacheAfterLookup(cache, key, t) == cache

\* (mutant) an entry aged exactly CACHE_DURATION still counts as fresh
FreshInclusive(entry, t) == t - entry.timestamp <= CACHE_DURATION

\* the `Date.now() - cached.timestamp < CACHE_DURATION` of line 52
Fresh(entry, t) == t - entry.timestamp < CACHE_DURATION

(***************************************************************************)
(* simulateKills (src/dropSimulator.js 47-150).  What it returns: a        *)
(* result, tagged with the table runSimulation was given (the loot of that  *)
(* run is what SpecSim explores), or an error string.  A value of kind     *)
(* "exception" stands for an exception that leaves the function.           *)
(***************************************************************************)
\* (mutant) the simulated table is handed back as an error value
ResultReportedAsError(dropData, killCount) ==
  [kind |-> "error", error |-> "No drop table data found"]

\* the value of `return runSimulation(dropData, killCount)` (lines 53, 121, 137, 145)
Result(dropData, killCount) ==
  [ kind |-> "result", monsterName |-> dropData.name, killCount |-> killCount,
    dropData |-> dropData ]

Error(text) == [kind |-> "error", error |-> text]

Escaped == [kind |-> "exception"]

\* (mutant) the catch block reports the failure without trying the catalog
CatchWithoutFallback(monsterName, killCount) == Error("Failed to fetch drop data")

\* lines 138-149: the catch block
CatchBlock(monsterName, killCount) ==
  IF getFallbackDropData(monsterName) # Null
    THEN Result(getFallbackDropData(monsterName), killCount)
    ELSE Error("Failed to fetch drop data")

\* (mutant) an exception thrown while the response is read is not caught
ThrowEscapes(monsterName, killCount) == Escaped

\* an exception thrown inside the try block (lines 57-137) reaches the catch block
Thrown(monsterName, killCount) == CatchBlock(monsterName, killCount)

\* (mutant) an empty search result is simulated as an empty table
NotFoundSimulated(monsterName, killCount) ==
  Result(Table(monsterName, <<>>, <<>>, <<>>, <<>>, 1, Null), killCount)

\* lines 68-70 and 91-93: no page for the monster
NotFound(monsterName, killCount) == Error("Could not find monster")

\* (mutant) the validation of the parsed table is skipped
NeverEmptyTable(dropData) == FALSE

\* lines 105-106: all four sequences of the parsed table are empty
IsEmptyTable(dropData) ==
  /\ Len(dropData.always) = 0 /\ Len(dropData.main) = 0
  /\ Len(dropData.uniques) = 0 /\ Len(dropData.tertiary) = 0

(***************************************************************************)
(* The texts the normalisation is explored on.                             *)
(***************************************************************************)
TextAlphabet == {"0", "1", "5", "-", "/", " ", "(", ")", "r"}

RECURSIVE TextsOfLen(_)
TextsOfLen(n) ==
  IF n = 0 THEN {<<>>}
  ELSE {<<c>> \o t : c \in TextAlphabet, t \in TextsOfLen(n - 1)}

FreeTexts == UNION {TextsOfLen(n) : n \in 0..MaxTextLen}

RangeText(a, b) == ToStr(a) \o <<"-">> \o ToStr(b)
FractionText(n, d) == ToStr(n) \o <<"/">> \o ToStr(d)

\* bucket names as the wiki writes them, other words, and annotated quantities
WordTexts ==
  RarityMapKeys \cup InheritedKeys \cup
  { <<"A","l","w","a","y","s">>, <<"C","o","m","m","o","n">>,
    <<"U","n","c","o","m","m","o","n">>, <<"R","a","r","e">>,
    <<"V","e","r","y"," ","r","a","r","e">>, <<" ","r","a","r","e"," ">>,
    <<"U","n","k","n","o","w","n">>, <<"v","a","r","i","e","s">>,
    <<"1","5"," ","(","n","o","t","e","d",")">>,
    <<"5","-","1","0"," ","(","n","o","t","e","d",")">>,
    <<"(","n","o","t","e","d",")">>, <<"~","1","/","5">>,
    <<"1","/","5","1","2">>, <<"+","5">> }

QuantityInputs ==
  {<<t>> : t \in FreeTexts \cup WordTexts}
    \cup {<<RangeText(a, b), RangeText(b, a)>> : a, b \in 0..MaxNum}

RarityInputs ==
  {<<t>> : t \in FreeTexts \cup WordTexts}
    \cup {<<FractionText(n, d)>> : n, d \in 0..MaxNum}
    \cup {<<ToStr(n)>> : n \in 0..MaxNum}

(***************************************************************************)
(* Normalisation as a state machine: a caller holds a list of texts and    *)
(* calls parseQuantity / parseRarity on them one after the other.          *)
(***************************************************************************)
ParseIdle == pKind = "off" /\ pIn = <<>> /\ pOut = <<>>

SelectIdle == sDrops = <<>> /\ sRand = Zero /\ sRet = <<>>

SimIdle ==
  /\ simTable = Null /\ simKillCount = 0 /\ simPhase = "off"
  /\ simI = 0 /\ simIdx = 0 /\ loot = <<>> /\ uniqueDrops = <<>>

CacheIdle ==
  /\ now = 0 /\ dropCache = <<>> /\ sweepDue = 0 /\ calls = <<>> /\ started = 0

InitParse ==
  /\ SelectIdle
  /\ SimIdle
  /\ CacheIdle
  /\ pKind \in {"quantity", "rarity"}
  /\ pIn \in (IF pKind = "quantity" THEN QuantityInputs ELSE RarityInputs)
  /\ pOut = <<>>

ParseQuantityCall ==
  /\ pKind = "quantity"
  /\ Len(pOut) < Len(pIn)
  /\ pOut' = Append(pOut, parseQuantity(pIn[Len(pOut) + 1]))
  /\ UNCHANGED <<pKind, pIn, selVars, simVars, cacheVars>>

ParseRarityCall ==
  /\ pKind = "rarity"
  /\ Len(pOut) < Len(pIn)
  /\ pOut' = Append(pOut, parseRarity(pIn[Len(pOut) + 1]))
  /\ UNCHANGED <<pKind, pIn, selVars, simVars, cacheVars>>

NextParse == ParseQuantityCall \/ ParseRarityCall

SpecParse == InitParse /\ [][NextParse]_vars

(***************************************************************************)
(* Weighted selection as a state machine: a table of drops parsed from     *)
(* markup lines, one random draw, one call.                                *)
(***************************************************************************)
\* rarity texts of the generated lines: fractions (also with a zero or a
\* negative numerator), buckets, a bare number, an unparseable word
SelRarityTexts ==
  { <<"1","/","4">>, <<"3","/","4">>, <<"2","/","5">>, <<"0","/","5">>,
    <<"-","1","/","5">>, <<"r","a","r","e">>, <<"c","o","m","m","o","n">>,
    <<"5","0","0">>, <<"U","n","k","n","o","w","n">> }

ItemNames == <<"Coins", "Bones", "Rune axe", "Ashes">>

RECURSIVE DropSeqs(_)
\* every sequence of n generated drops; the i-th drop carries the i-th item name
DropSeqs(n) ==
  IF n = 0 THEN {<<>>}
  ELSE {Append(t, ParsedDrop(ItemNames[n], <<"1">>, rt)) :
          t \in DropSeqs(n - 1), rt \in SelRarityTexts}

SelTables == UNION {DropSeqs(n) : n \in 0..MaxDrops}

InitSelect ==
  /\ ParseIdle
  /\ SimIdle
  /\ CacheIdle
  /\ sDrops \in SelTables
  /\ sRand \in RandomDraws
  /\ sRet = <<>>

\* sRet is empty before the call and holds the returned value after it
SelectCall ==
  /\ sRet = <<>>
  /\ sRet' = <<selectWeightedDrop(sDrops, sRand)>>
  /\ UNCHANGED <<sDrops, sRand, parseVars, simVars, cacheVars>>

NextSelect == SelectCall

SpecSelect == InitSelect /\ [][NextSelect]_vars

(***************************************************************************)
(* runSimulation as a state machine: one step per always drop, per main    *)
(* roll, per unique trial and per tertiary trial of each kill.             *)
(***************************************************************************)
\* markup lines of a 100% section: two items, a fixed and a ranged quantity
AlwaysLines ==
  { ParsedDrop(i, q, <<"A","l","w","a","y","s">>) :
      i \in {"Bones", "Ashes"}, q \in {<<"3">>, <<"1","-","2">>} }

RECURSIVE SeqsOver(_, _)
SeqsOver(S, n) ==
  IF n = 0 THEN {<<>>} ELSE {Append(t, x) : t \in SeqsOver(S, n - 1), x \in S}

GoblinName == <<"G","o","b","l","i","n">>

MainLines ==
  << ParsedDrop("Coins", <<"5">>, <<"3","/","4">>),
     ParsedDrop("Bones", <<"1">>, <<"1","/","4">>) >>

\* a main table of two drops of quantity 1 and equal weight
UnitMainLines ==
  << ParsedDrop("Coins", <<"1">>, <<"1","/","4">>),
     ParsedDrop("Bones", <<"1">>, <<"1","/","4">>) >>

\* tables that vary the 100% section: up to MaxAlways lines, repeated items
\* included, beside an empty or a two-line main table (which also drops Bones)
AlwaysTables ==
  { Table(GoblinName, a, m, <<>>, <<>>, 1, Null) :
      a \in UNION {SeqsOver(AlwaysLines, n) : n \in 0..MaxAlways},
      m \in {<<>>, MainLines} }

\* tables that vary the rest: main table, uniques with and without a shared
\* unique-table chance, a rare or a frequent tertiary drop, one or two main rolls
EventTables ==
  { Table(GoblinName, <<>>, m, u, t, rolls, chance) :
      m \in {<<>>, MainLines, UnitMainLines},
      u \in { <<>>, << ParsedDrop("Ashes", <<"1">>, <<"1","/","2">>) >> },
      t \in { <<>>, << ParsedDrop("Pet", <<"1">>, <<"1","/","2","0","0","0">>) >>,
              << ParsedDrop("Clue", <<"1">>, <<"1","/","2">>) >> },
      rolls \in {1, 2},
      chance \in {Null, Rat(1, 2)} }

\* tables whose exact simulation has no random outcome: one main drop of
\* quantity 1, rolled once or twice per kill
LongTables ==
  { Table(GoblinName, <<>>, << ParsedDrop("Coins", <<"1">>, <<"1","/","4">>) >>,
          <<>>, <<>>, rolls, Null) : rolls \in {1, 2} }

\* tables for the approximation: rarities high enough for a few events only
\* (1001 kills at 1/2002 are half a drop expected, at 1/143 seven)
OptTables ==
  { Table(GoblinName, a, m, u, t, rolls, chance) :
      a \in { <<>>, << ParsedDrop("Ashes", <<"1","-","2">>, <<"A","l","w","a","y","s">>) >> },
      m \in {<<>>, MainLines},
      u \in { <<>>, << ParsedDrop("Gem", <<"1">>, <<"1","/","2","0","0","2">>) >> },
      t \in { <<>>, << ParsedDrop("Pet", <<"1">>, <<"1","/","2","0","0","2">>) >>,
              << ParsedDrop("Clue", <<"1">>, <<"1","/","1","4","3">>) >> },
      rolls \in {1, 2},
      chance \in {Null, Rat(1, 2)} }

\* the kill counts on either side of the `killCount > 1000` of line 430
ThresholdKills == {1000, 1001}

\* the iterations of the loop of lines 554-567 at which a trial may succeed
OptHitIndexes(killCount) == {0, 1, killCount - 1}

\* generated tables for 1..MaxKills kills, the catalog tables for one kill,
\* the long tables on either side of the threshold, the tables for the
\* approximation above it
SimInputs ==
  ((AlwaysTables \cup EventTables) \X (1..MaxKills))
    \cup ({getCerberusHardcodedDrops, KingBlackDragonDrops} \X {1})
    \cup (LongTables \X ThresholdKills)
    \cup (OptTables \X {1001})

InitSim ==
  /\ ParseIdle
  /\ SelectIdle
  /\ CacheIdle
  /\ \E input \in SimInputs : simTable = input[1] /\ simKillCount = input[2]
  /\ simPhase = "start"
  /\ simI = 0
  /\ simIdx = 0
  /\ loot = <<>>
  /\ uniqueDrops = <<>>

\* lines 424-434: the exact loop is entered when killCount <= 1000
SimStart ==
  /\ simPhase = "start"
  /\ ~UsesOptimized(simKillCount)
  /\ simI' = 0
  /\ simPhase' = IF 0 < simKillCount THEN FirstStepFrom(simTable, 1) ELSE "done"
  /\ simIdx' = 1
  /\ UNCHANGED <<simTable, simKillCount, loot, uniqueDrops, parseVars, selVars, cacheVars>>

\* lines 438-441, one drop of dropData.always
SimAlwaysDrop ==
  /\ simPhase = "always"
  /\ \E r \in RandomDraws :
       LET drop == simTable.always[simIdx]
       IN loot' = addToLoot(loot, drop.item, getRandomQuantity(drop.quantity, r))
  /\ AfterStep("always", simIdx)
  /\ UNCHANGED <<simTable, simKillCount, simI, uniqueDrops, parseVars, selVars, cacheVars>>

\* lines 445-452, one roll of the main table
SimMainRoll ==
  /\ simPhase = "main"
  /\ \E r1, r2 \in RandomDraws :
       LET mainDrop == selectWeightedDrop(simTable.main, r1)
       IN loot' = IF mainDrop # Null
                    THEN addToLoot(loot, mainDrop.item,
                                   getRandomQuantity(mainDrop.quantity, r2))
                    ELSE loot
  /\ AfterStep("main", simIdx)
  /\ UNCHANGED <<simTable, simKillCount, simI, uniqueDrops, parseVars, selVars, cacheVars>>

\* lines 455-468, the one trial of the unique table
SimUniqueTable ==
  /\ simPhase = "unique"
  /\ UsesUniqueTable(simTable)
  /\ \E r1, r2, r3 \in RandomDraws :
       IF RLt(r1, simTable.uniqueTableChance)
         THEN LET uniqueDrop ==
                    simTable.uniques[FloorTimes(r2, Len(simTable.uniques)) + 1]
              IN /\ loot' = addToLoot(loot, uniqueDrop.item,
                                      getRandomQuantity(uniqueDrop.quantity, r3))
                 /\ uniqueDrops' = Append(uniqueDrops, UniqueEvent(uniqueDrop, simI + 1))
         ELSE UNCHANGED <<loot, uniqueDrops>>
  /\ AfterStep("unique", simIdx)
  /\ UNCHANGED <<simTable, simKillCount, simI, parseVars, selVars, cacheVars>>

\* lines 471-481, the trial of one unique at its own rate
SimUniqueItem ==
  /\ simPhase = "unique"
  /\ ~UsesUniqueTable(simTable)
  /\ \E r1, r2 \in RandomDraws :
       LET uniqueDrop == simTable.uniques[simIdx]
       IN IF RollsUnder(r1, uniqueDrop.rarity)
            THEN /\ loot' = addToLoot(loot, uniqueDrop.item,
                                      getRandomQuantity(uniqueDrop.quantity, r2))
                 /\ uniqueDrops' = Append(uniqueDrops, UniqueEvent(uniqueDrop, simI + 1))
            ELSE UNCHANGED <<loot, uniqueDrops>>
  /\ AfterStep("unique", simIdx)
  /\ UNCHANGED <<simTable, simKillCount, simI, parseVars, selVars, cacheVars>>

\* lines 485-499, the trial of one tertiary drop
SimTertiaryDrop ==
  /\ simPhase = "tertiary"
  /\ \E r1, r2 \in RandomDraws :
       LET drop == simTable.tertiary[simIdx]
       IN IF RollsUnder(r1, drop.rarity)
            THEN /\ loot' = addToLoot(loot, drop.item,
                                      getRandomQuantity(drop.quantity, r2))
                 /\ uniqueDrops' = IF TracksTertiary(drop)
                                     THEN Append(uniqueDrops, UniqueEvent(drop, simI + 1))
                                     ELSE uniqueDrops
            ELSE UNCHANGED <<loot, uniqueDrops>>
  /\ AfterStep("tertiary", simIdx)
  /\ UNCHANGED <<simTable, simKillCount, simI, parseVars, selVars, cacheVars>>

\* line 434: i++ and the loop test; lines 502-507 when the loop ends
SimEndKill ==
  /\ simPhase = "endkill"
  /\ simI' = simI + 1
  /\ simPhase' = IF simI + 1 < simKillCount THEN FirstStepFrom(simTable, 1) ELSE "done"
  /\ simIdx' = 1
  /\ UNCHANGED <<simTable, simKillCount, loot, uniqueDrops, parseVars, selVars, cacheVars>>

\* lines 430-432 and 510-511: killCount > 1000 hands over to runOptimizedSimulation
SimStartOptimized ==
  /\ simPhase = "start"
  /\ UsesOptimized(simKillCount)
  /\ simI' = 0
  /\ simPhase' = OptFirstStepFrom(simTable, 1)
  /\ simIdx' = 1
  /\ UNCHANGED <<simTable, simKillCount, loot, uniqueDrops, parseVars, selVars, cacheVars>>

\* lines 514-518, one drop of dropData.always
OptAlwaysDrop ==
  /\ simPhase = "optAlways"
  /\ LET drop == simTable.always[simIdx]
     IN loot' = addToLoot(loot, drop.item, TotalQuantity(drop, simKillCount))
  /\ OptAfterStep("optAlways", simIdx)
  /\ UNCHANGED <<simTable, simKillCount, simI, uniqueDrops, parseVars, selVars, cacheVars>>

\* lines 539-549, one drop of dropData.main
OptMainDrop ==
  /\ simPhase = "optMain"
  /\ \E r \in RandomDraws :
       LET drop == simTable.main[simIdx]
           actualDrops == ActualDrops(ExpectedMainDrops(simTable, simKillCount, simIdx), r)
       IN loot' = IF actualDrops > 0
                    THEN addToLoot(loot, drop.item, TotalQuantity(drop, actualDrops))
                    ELSE loot
  /\ OptAfterStep("optMain", simIdx)
  /\ UNCHANGED <<simTable, simKillCount, simI, uniqueDrops, parseVars, selVars, cacheVars>>

\* some value of Math.random() fails the trial of line 555
CanMissUniqueTable == \E r \in RandomDraws : ~RLt(r, simTable.uniqueTableChance)

\* lines 554-567: the trials of iterations simI .. i - 1 fail, which changes
\* nothing, and the trial of iteration i succeeds
OptUniqueTableHit(i) ==
  /\ simPhase = "optUnique"
  /\ UsesUniqueTable(simTable)
  /\ simI <= i /\ i < simKillCount
  /\ simI < i => CanMissUniqueTable
  /\ \E r1, r2, r3 \in RandomDraws :
       /\ RLt(r1, simTable.uniqueTableChance)
       /\ LET uniqueDrop ==
                simTable.uniques[FloorTimes(r2, Len(simTable.uniques)) + 1]
          IN /\ loot' = addToLoot(loot, uniqueDrop.item,
                                  getRandomQuantity(uniqueDrop.quantity, r3))
             /\ uniqueDrops' = Append(uniqueDrops, UniqueEvent(uniqueDrop, i + 1))
  /\ simI' = i + 1
  /\ UNCHANGED <<simTable, simKillCount, simPhase, simIdx, parseVars, selVars, cacheVars>>

\* lines 554-567: the trials of the remaining iterations fail and the loop ends
OptUniqueTableEnd ==
  /\ simPhase = "optUnique"
  /\ UsesUniqueTable(simTable)
  /\ simI < simKillCount => CanMissUniqueTable
  /\ simI' = simKillCount
  /\ OptAfterStep("optUnique", simIdx)
  /\ UNCHANGED <<simTable, simKillCount, loot, uniqueDrops, parseVars, selVars, cacheVars>>

\* lines 570-585, one unique at its own rate: the number of drops, then a
\* quantity and a kill number drawn for each
OptUniqueItem ==
  /\ simPhase = "optUnique"
  /\ ~UsesUniqueTable(simTable)
  /\ \E r \in RandomDraws :
       LET uniqueDrop == simTable.uniques[simIdx]
           actualDrops == ActualDrops(ExpectedRareDrops(simKillCount, uniqueDrop), r)
       IN \E quantityDraws, killDraws \in [1..actualDrops -> RandomDraws] :
            /\ loot' = IF actualDrops > 0
                         THEN addToLoot(loot, uniqueDrop.item,
                                        DrawnQuantities(uniqueDrop.quantity, quantityDraws))
                         ELSE loot
            /\ uniqueDrops' =
                 uniqueDrops \o RandomEvents(uniqueDrop, killDraws, simKillCount)
  /\ OptAfterStep("optUnique", simIdx)
  /\ UNCHANGED <<simTable, simKillCount, simI, parseVars, selVars, cacheVars>>

\* lines 589-610, one tertiary drop
OptTertiaryDrop ==
  /\ simPhase = "optTertiary"
  /\ \E r \in RandomDraws :
       LET drop == simTable.tertiary[simIdx]
           actualDrops == ActualDrops(ExpectedRareDrops(simKillCount, drop), r)
       IN IF actualDrops > 0
            THEN /\ loot' = addToLoot(loot, drop.item, TotalQuantity(drop, actualDrops))
                 /\ IF TracksTertiary(drop)
                      THEN \E killDraws \in [1..actualDrops -> RandomDraws] :
                             uniqueDrops' =
                               uniqueDrops \o RandomEvents(drop, killDraws, simKillCount)
                      ELSE UNCHANGED uniqueDrops
            ELSE UNCHANGED <<loot, uniqueDrops>>
  /\ OptAfterStep("optTertiary", simIdx)
  /\ UNCHANGED <<simTable, simKillCount, simI, parseVars, selVars, cacheVars>>

NextSim ==
  \/ SimStart
  \/ SimAlwaysDrop
  \/ SimMainRoll
  \/ SimUniqueTable
  \/ SimUniqueItem
  \/ SimTertiaryDrop
  \/ SimEndKill
  \/ SimStartOptimized
  \/ OptAlwaysDrop
  \/ OptMainDrop
  \/ \E i \in OptHitIndexes(simKillCount) : OptUniqueTableHit(i)
  \/ OptUniqueTableEnd
  \/ OptUniqueItem
  \/ OptTertiaryDrop

SpecSim == InitSim /\ [][NextSim]_vars

\* the value runSimulation returns (lines 502-507, 612-617), once it has ended
SimResult ==
  [ monsterName |-> simTable.name, killCount |-> simKillCount,
    loot |-> loot, uniqueDrops |-> uniqueDrops ]

(***************************************************************************)
(* The cache and simulateKills as a state machine.  Two callers invoke     *)
(* simulateKills; an invocation runs to its first await, then resumes when *)
(* the search response and when the content response arrive (fetch and     *)
(* json() are awaited back to back and touch nothing shared, so the        *)
(* outcomes of the two are enumerated together).  The clock moves forward  *)
(* through ClockReadings; the interval timer fires cleanupExpiredCache.    *)
(***************************************************************************)
Procs == {1, 2}

ClockReadings == {0, CACHE_DURATION - 1, CACHE_DURATION}

FillerKey(i) == <<"m">> \o ToStr(i)

MonsterNames == { <<"C","e","r","b","e","r","u","s">>, <<"g","o","b","l","i","n">> }

KillCounts == {5}

PageTitles == { <<"C","e","r","b","e","r","u","s">>, <<"G","o","b","l","i","n">> }

\* a page with a 100% section and further lines, and one without any DropsLine
FullMarkup ==
  Markup(<< Line("Bones", <<"1">>, <<"A","l","w","a","y","s">>) >>, <<>>, <<>>,
         << Line("Coins", <<"5","-","1","0">>, <<"3","/","4">>),
            Line("Bones", <<"1">>, <<"1","/","4">>) >>,
         <<>>, <<>>)
EmptyMarkup == Markup(<<>>, <<>>, <<>>, <<>>, <<>>, <<>>)

Contents == {FullMarkup, EmptyMarkup}

\* the ways a response can fail to be read: fetch rejects, the status is not
\* OK, json() rejects; for the content response also a body without
\* query.pages, an empty pages object, an empty revisions list, and a
\* revision whose text is not a string, on which parseDropTables throws
SearchFailures == {"reject", "notOk", "badJson"}
ContentFailures ==
  SearchFailures \cup {"noPages", "emptyPages", "emptyRevisions", "notText"}

\* a cache that MAX_CACHE_SIZE - 1 earlier invocations, all at clock reading 0
\* and each for a monster of its own, have filled
PrefilledCache ==
  [i \in 1..(MAX_CACHE_SIZE - 1) |->
     Entry(FillerKey(i), parseDropTables(FullMarkup, <<"M">> \o ToStr(i)), 0)]

IdleCall == [pc |-> "idle"]

InitCache ==
  /\ ParseIdle
  /\ SelectIdle
  /\ SimIdle
  /\ now = 0
  /\ dropCache \in {<<>>, PrefilledCache}
  /\ sweepDue = CLEANUP_INTERVAL
  /\ calls = [p \in Procs |-> IdleCall]
  /\ started = 0

\* the invocation is over: what it returned and the branch it returned from
Returned(call, value, path) ==
  [call EXCEPT !.pc = "done", !.ret = value, !.path = path, !.pageTitle = <<>>]

\* lines 47-60: the cache lookup; a hit returns at once, a miss starts the search
CallStart(p, monsterName, killCount) ==
  /\ calls[p].pc \in {"idle", "done"}
  /\ started < MaxCalls
  /\ started' = started + 1
  /\ LET cacheKey == toLowerCase(monsterName)
         found == HasKey(dropCache, cacheKey)
         call == [ pc |-> "search", monsterName |-> monsterName, killCount |-> killCount,
                   cacheKey |-> cacheKey, pageTitle |-> <<>>, ret |-> Null, path |-> "",
                   found |-> found,
                   age |-> IF found THEN now - CacheGet(dropCache, cacheKey).timestamp ELSE 0 ]
     IN /\ calls' = [calls EXCEPT ![p] =
                    IF found /\ Fresh(CacheGet(dropCache, cacheKey), now)
                      THEN Returned(call, Result(CacheGet(dropCache, cacheKey).data, killCount),
                                    "cache")
                      ELSE call]
        /\ dropCache' = CacheAfterLookup(dropCache, cacheKey, now)
  /\ UNCHANGED <<now, sweepDue, parseVars, selVars, simVars>>

\* lines 60-64 and 66: the search response cannot be read
SearchFails(p, failure) ==
  /\ calls[p].pc = "search"
  /\ failure \in SearchFailures
  /\ calls' = [calls EXCEPT ![p] =
       Returned(calls[p], Thrown(calls[p].monsterName, calls[p].killCount), "searchFailed")]
  /\ UNCHANGED <<now, dropCache, sweepDue, started, parseVars, selVars, simVars>>

\* lines 68-70: the search has no query.search list or an empty one
SearchEmpty(p) ==
  /\ calls[p].pc = "search"
  /\ calls' = [calls EXCEPT ![p] =
       Returned(calls[p], NotFound(calls[p].monsterName, calls[p].killCount), "notFound")]
  /\ UNCHANGED <<now, dropCache, sweepDue, started, parseVars, selVars, simVars>>

\* lines 72-76: the first search result names the page to fetch
SearchFinds(p, title) ==
  /\ calls[p].pc = "search"
  /\ calls' = [calls EXCEPT ![p] = [calls[p] EXCEPT !.pc = "content", !.pageTitle = title]]
  /\ UNCHANGED <<now, dropCache, sweepDue, started, parseVars, selVars, simVars>>

\* lines 76-86, 91, 95 and 102: the content response cannot be read
ContentFails(p, failure) ==
  /\ calls[p].pc = "content"
  /\ failure \in ContentFailures
  /\ calls' = [calls EXCEPT ![p] =
       Returned(calls[p], Thrown(calls[p].monsterName, calls[p].killCount), "contentFailed")]
  /\ UNCHANGED <<now, dropCache, sweepDue, started, parseVars, selVars, simVars>>

\* lines 91-93: the page id is -1 or the page has no revisions field
ContentMissing(p) ==
  /\ calls[p].pc = "content"
  /\ calls' = [calls EXCEPT ![p] =
       Returned(calls[p], Error("Wiki page not found"), "pageMissing")]
  /\ UNCHANGED <<now, dropCache, sweepDue, started, parseVars, selVars, simVars>>

\* lines 95-99: the revision carries no text
ContentBlank(p) ==
  /\ calls[p].pc = "content"
  /\ calls' = [calls EXCEPT ![p] =
       Returned(calls[p], Error("No content found"), "noContent")]
  /\ UNCHANGED <<now, dropCache, sweepDue, started, parseVars, selVars, simVars>>

\* lines 101-137: the page text is parsed, validated, stored and simulated
ContentArrives(p, content) ==
  /\ calls[p].pc = "content"
  /\ LET call == calls[p]
         dropData == parseDropTables(content, call.pageTitle)
         fallbackData == getFallbackDropData(call.monsterName)
     IN IF IsEmptyTable(dropData)
          THEN IF fallbackData # Null
                 THEN /\ dropCache' = CachePut(dropCache, call.cacheKey, fallbackData, now)
                      /\ calls' = [calls EXCEPT ![p] =
                           Returned(call, Result(fallbackData, call.killCount),
                                    "storedFallback")]
                 ELSE /\ calls' = [calls EXCEPT ![p] =
                           Returned(call, Error("No drop table data found"), "noDropData")]
                      /\ UNCHANGED dropCache
          ELSE /\ dropCache' = CachePut(dropCache, call.cacheKey, dropData, now)
               /\ calls' = [calls EXCEPT ![p] =
                    Returned(call, Result(dropData, call.killCount), "stored")]
  /\ UNCHANGED <<now, sweepDue, started, parseVars, selVars, simVars>>

\* the clock moves on
Tick(t) ==
  /\ t > now
  /\ now' = t
  /\ UNCHANGED <<dropCache, sweepDue, calls, started, parseVars, selVars, simVars>>

\* lines 8-10: the interval timer fires
Sweep ==
  /\ now >= sweepDue
  /\ dropCache' = cleanupExpiredCache(dropCache, now)
  /\ sweepDue' = now + CLEANUP_INTERVAL
  /\ UNCHANGED <<now, calls, started, parseVars, selVars, simVars>>

Next ==
  \/ \E p \in Procs, monsterName \in MonsterNames, killCount \in KillCounts :
       CallStart(p, monsterName, killCount)
  \/ \E p \in Procs, failure \in SearchFailures : SearchFails(p, failure)
  \/ \E p \in Procs : SearchEmpty(p)
  \/ \E p \in Procs, title \in PageTitles : SearchFinds(p, title)
  \/ \E p \in Procs, failure \in ContentFailures : ContentFails(p, failure)
  \/ \E p \in Procs : ContentMissing(p)
  \/ \E p \in Procs : ContentBlank(p)
  \/ \E p \in Procs, content \in Contents : ContentArrives(p, content)
  \/ \E t \in ClockReadings : Tick(t)
  \/ Sweep

Spec == InitCache /\ [][Next]_vars

(***************************************************************************)
(* parseDropTables as a state machine: a caller holds the markup of a page *)
(* and its title and calls parseDropTables on them.                        *)
(***************************************************************************)
MaxLines == 1         \* a section of a generated page has at most this many DropsLine lines

\* DropsLine lines over two items
TableLines ==
  { Line("Ashes", <<"1">>, <<"A","l","w","a","y","s">>),
    Line("Pet", <<"1">>, <<"1","/","2","0","0","0">>) }

SectionLines == UNION {SeqsOver(TableLines, n) : n \in 0..MaxLines}

\* what the unique-table patterns ([\d/]+ and \d+\/\d+) and the main-rolls
\* pattern (\d+) can capture
RateTexts == { <<"1","/","1","3","0">>, <<"3","/","2">>, <<"0","/","5">>, <<"7">>, <<"/">> }
RollsTexts == { <<"2">>, <<"0">> }

Matches(texts) == {<<>>} \cup {<<t>> : t \in texts}

\* pages that vary the sections, and pages that vary the two sentences
TablePages ==
  { Markup(a, u, t, o, <<>>, <<>>) : a, u, t, o \in SectionLines }
    \cup { Markup(<<>>, <<>>, <<>>, << Line("Ashes", <<"1">>, <<"1","/","4">>) >>, rate, rolls) :
             rate \in Matches(RateTexts), rolls \in Matches(RollsTexts) }

InitTables ==
  /\ SelectIdle
  /\ SimIdle
  /\ CacheIdle
  /\ pKind = "tables"
  /\ pIn \in TablePages \X PageTitles
  /\ pOut = <<>>

\* parseDropTables(content, pageTitle)
ParseTablesCall ==
  /\ pKind = "tables"
  /\ pOut = <<>>
  /\ pOut' = <<parseDropTables(pIn[1], pIn[2])>>
  /\ UNCHANGED <<pKind, pIn, selVars, simVars, cacheVars>>

NextTables == ParseTablesCall

SpecTables == InitTables /\ [][NextTables]_vars

(***************************************************************************)
(* Claims about the normalisation, checked under SpecParse.                *)
(***************************************************************************)
QuantityParsed == pKind = "quantity" /\ Len(pOut) = Len(pIn)
RarityParsed == pKind = "rarity" /\ Len(pOut) = 1

SwappedPairIs(R) ==
  \A a, b \in R :
    pIn = <<RangeText(a, b), RangeText(b, a)>> =>
      /\ pOut[1] = pOut[2]
      /\ pOut[1] = Range(Min2(a, b), Max2(a, b))

\* C8 as stated: for all non-negative integers a and b, parseQuantity("a-b")
\* and parseQuantity("b-a") return the same range {min(a,b), max(a,b)}.
C8_AsStated == QuantityParsed /\ Len(pIn) = 2 => SwappedPairIs(0..MaxNum)

\* C8 amended: the same for all positive integers a and b (a zero end is
\* replaced by a default that depends on which end it is).
C8_OrderIndependent == QuantityParsed /\ Len(pIn) = 2 => SwappedPairIs(1..MaxNum)

C8_Witness ==
  /\ QuantityParsed
  /\ pIn = <<RangeText(10, 5), RangeText(5, 10)>>
  /\ pOut = <<Range(5, 10), Range(5, 10)>>

BucketTexts ==
  { <<"a","l","w","a","y","s">>, <<"c","o","m","m","o","n">>,
    <<"u","n","c","o","m","m","o","n">>, <<"r","a","r","e">>,
    <<"v","e","r","y"," ","r","a","r","e">> }

BucketValue(t) ==
  CASE t = <<"a","l","w","a","y","s">> -> 1
    [] t = <<"c","o","m","m","o","n">> -> 8
    [] t = <<"u","n","c","o","m","m","o","n">> -> 32
    [] t = <<"r","a","r","e">> -> 128
    [] t = <<"v","e","r","y"," ","r","a","r","e">> -> 512

HasSlash(t) == \E i \in 1..Len(t) : t[i] = "/"

\* t, blanks and an optional sign aside, starts with a digit run of positive value
LeadsWithPositive(t) ==
  \E i \in 1..Len(t) :
    /\ IsDigit(t[i])
    /\ \A j \in 1..(i-1) : t[j] = " " \/ (j = i - 1 /\ t[j] = "+")
    /\ \E k \in i..Len(t) :
         /\ \A j \in i..k : IsDigit(t[j])
         /\ t[k] # "0"

FractionsAndBuckets ==
  /\ \A n, d \in 1..MaxNum :
       pIn[1] = FractionText(n, d) => RatEq(pOut[1], Rat(d, n))
  /\ pIn[1] = <<"1","/","5","1","2">> => pOut[1] = Rat(512, 1)
  /\ pIn[1] \in BucketTexts => pOut[1] = Rat(BucketValue(pIn[1]), 1)

\* C9 as stated: a fraction n/d gives d/n, the buckets always, common,
\* uncommon, rare, very rare give 1, 8, 32, 128, 512, and every other text
\* gives 128.  (A text with a "/" is left to the fraction clause here.)
C9_AsStated ==
  RarityParsed =>
    /\ FractionsAndBuckets
    /\ (~HasSlash(pIn[1]) /\ pIn[1] \notin BucketTexts => pOut[1] = Rat(128, 1))

\* C9 amended: a fraction n/d of positive integers gives d/n; the buckets (in
\* any letter case, blanks around them dropped, also very_rare) give 1, 8, 32,
\* 128, 512; a text without "/" that starts with a positive integer gives that
\* integer; every other text without "/" gives 128, except constructor and
\* __proto__, which name inherited properties of the lookup object.
C9_RarityNormalised ==
  RarityParsed =>
    /\ FractionsAndBuckets
    /\ \A n \in 1..MaxNum : pIn[1] = ToStr(n) => pOut[1] = Rat(n, 1)
    /\ ~HasSlash(pIn[1]) =>
         LET key == toLowerCase(trim(pIn[1]))
         IN /\ LeadsWithPositive(pIn[1]) =>
                 /\ pOut[1] = Rat(parseInt(pIn[1]).val, 1)
                 /\ pOut[1].num >= 1
            /\ ~LeadsWithPositive(pIn[1]) /\ key \in RarityMapKeys =>
                 pOut[1] = Rat(RarityMapOwn(key), 1)
            /\ ~LeadsWithPositive(pIn[1]) /\ key \notin RarityMapKeys \cup InheritedKeys =>
                 pOut[1] = Rat(128, 1)

C9_Witness ==
  /\ RarityParsed
  /\ pIn = <<(<<"1","/","5","1","2">>)>>
  /\ pOut = <<Rat(512, 1)>>

\* C10: every range parseQuantity returns has min <= max and both ends >= 1,
\* for ranges, bare numbers, zero, a leading minus sign, empty and unparseable text.
C10_RangeValid ==
  pKind = "quantity" =>
    \A i \in 1..Len(pOut) :
      /\ pOut[i].min <= pOut[i].max
      /\ pOut[i].min >= 1
      /\ pOut[i].max >= 1

C10_Witness ==
  /\ QuantityParsed
  /\ pIn = <<(<<"-","5">>)>>
  /\ pOut = <<Range(1, 5)>>

(***************************************************************************)
(* Claims about the weighted selection, checked under SpecSelect.          *)
(***************************************************************************)
RECURSIVE CumWeight(_)
\* cumulative weight of the first i drops of the table
CumWeight(i) == IF i = 0 THEN Zero ELSE RAdd(CumWeight(i - 1), DropWeight(sDrops[i]))

\* the draw u = Math.random() * totalWeight of the call in this state
DrawU == RMul(sRand, CumWeight(Len(sDrops)))


\* a non-empty table whose total weight is positive, so that [0, totalWeight)
\* holds the draw
DrawInRange ==
  /\ Len(sDrops) > 0
  /\ RLt(Zero, CumWeight(Len(sDrops)))

\* C6: on a non-empty main table and a draw u in [0, totalWeight),
\* selectWeightedDrop returns an element of the table, never null, and it is
\* the first one in sequence order whose cumulative weight is >= u.
C6_SelectsFirstCumulative ==
  Len(sRet) = 1 /\ DrawInRange =>
    \E i \in 1..Len(sDrops) :
      /\ sRet[1] # Null
      /\ sRet[1] = sDrops[i]
      /\ RLe(DrawU, CumWeight(i))
      /\ \A j \in 1..(i - 1) : RLt(CumWeight(j), DrawU)

\* a call whose draw equals the cumulative weight of the first drop exactly,
\* and which returned that first drop
C6_Witness ==
  /\ Len(sDrops) = 3
  /\ DrawInRange
  /\ DrawU = CumWeight(1)
  /\ RLt(Zero, DrawU)
  /\ sRet = <<sDrops[1]>>

(***************************************************************************)
(* Claims about the exact simulation, checked under SpecSim.               *)
(***************************************************************************)
SimDone == simPhase = "done"

LootOf(item) == IF item \in DOMAIN loot THEN loot[item] ELSE 0

InSequence(item, drops) == \E k \in 1..Len(drops) : drops[k].item = item

InOtherSequence(item) ==
  \/ InSequence(item, simTable.main)
  \/ InSequence(item, simTable.uniques)
  \/ InSequence(item, simTable.tertiary)

FixedQuantity(drop) == drop.quantity.min = drop.quantity.max

Cerberus == <<"C","e","r","b","e","r","u","s">>
Goblin == <<"g","o","b","l","i","n">>

Done(p) == calls[p].pc = "done"
Failed(p) == Done(p) /\ calls[p].path \in {"searchFailed", "contentFailed"}

\* C1: after any sequence of insertions made by simulateKills, at any clock
\* readings and interleaved with the sweep, the cache never holds more than
\* MAX_CACHE_SIZE (100) entries.
C1_CacheBounded == Len(dropCache) <= MAX_CACHE_SIZE

\* C2: an invocation returns from the cache exactly when the key is present
\* and the entry's age, now - timestamp, is below one hour; an entry aged one
\* hour or more is treated as absent and is never simulated.
C2_ServedOnlyWhenFresh ==
  \A p \in Procs :
    calls[p].pc # "idle" =>
      /\ (calls[p].path = "cache") <=> (calls[p].found /\ calls[p].age < 60 * 60 * 1000)
      /\ calls[p].path = "cache" => (Done(p) /\ calls[p].ret.kind = "result")

\* an invocation that found an entry aged one hour or more, fetched instead and
\* has returned
C2_Witness ==
  \E p \in Procs :
    /\ Done(p) /\ calls[p].found /\ calls[p].age >= 60 * 60 * 1000
    /\ calls[p].path = "stored"

\* C3: for a monster name the fallback catalog recognises and any kill
\* count, an invocation whose fetch throws or answers with a non-OK status
\* returns a non-error result computed from the catalog's table.
C3_FallbackOnFailure ==
  \A p \in Procs :
    (Failed(p) /\ getFallbackDropData(calls[p].monsterName) # Null) =>
      /\ calls[p].ret.kind = "result"
      /\ calls[p].ret.killCount = calls[p].killCount
      /\ calls[p].ret.dropData = getFallbackDropData(calls[p].monsterName)

\* the search for Cerberus failed and the invocation returned the catalog's table
C3_Witness ==
  \E p \in Procs :
    /\ Done(p) /\ calls[p].path = "searchFailed" /\ calls[p].monsterName = Cerberus
    /\ calls[p].ret = Result(getCerberusHardcodedDrops, calls[p].killCount)

\* C4: for a monster name without a fallback catalog match, an invocation
\* whose search finds no page (or whose page does not exist) returns an error
\* string and no simulation result.
C4_NotFoundIsError ==
  \A p \in Procs :
    ( /\ Done(p) /\ calls[p].path \in {"notFound", "pageMissing"}
      /\ getFallbackDropData(calls[p].monsterName) = Null ) =>
      /\ calls[p].ret.kind = "error"
      /\ DOMAIN calls[p].ret = {"kind", "error"}

\* the search for goblin came back empty and the invocation returned the error
C4_Witness ==
  \E p \in Procs :
    /\ Done(p) /\ calls[p].path = "notFound" /\ calls[p].monsterName = Goblin
    /\ calls[p].ret = Error("Could not find monster")

\* C5: whatever the acquisition steps do, an invocation that is over has
\* returned a result or an error string; no exception leaves simulateKills.
C5_AlwaysReturnsValue ==
  \A p \in Procs :
    Done(p) =>
      \/ /\ calls[p].ret.kind = "result"
         /\ DOMAIN calls[p].ret = {"kind", "monsterName", "killCount", "dropData"}
      \/ /\ calls[p].ret.kind = "error"
         /\ DOMAIN calls[p].ret = {"kind", "error"}

\* an invocation whose content response could not be read and whose monster has
\* no catalog table returned the failure as an error
C5_Witness ==
  \E p \in Procs :
    /\ Done(p) /\ calls[p].path = "contentFailed"
    /\ calls[p].ret = Error("Failed to fetch drop data")

(***************************************************************************)
(* Claims about parseDropTables, checked under SpecTables.                 *)
(***************************************************************************)
TablesParsed == pKind = "tables" /\ Len(pOut) = 1

SequenceNames == {"always", "uniques", "tertiary", "main"}

ItemsOf(drops) == {drops[k].item : k \in 1..Len(drops)}

\* C11: in every table parseDropTables returns, no item name appears in more
\* than one of the four sequences always, uniques, tertiary, main.
C11_NoItemInTwoSequences ==
  TablesParsed =>
    \A f, g \in SequenceNames :
      f # g => ItemsOf(pOut[1][f]) \cap ItemsOf(pOut[1][g]) = {}

\* C12: every table parseDropTables returns has mainTableRolls >= 1 and a
\* uniqueTableChance that is unset or a probability in (0, 1].
C12_RollsAndChanceValid ==
  TablesParsed =>
    /\ pOut[1].mainTableRolls >= 1
    /\ \/ pOut[1].uniqueTableChance = Null
       \/ /\ RLt(Zero, pOut[1].uniqueTableChance)
          /\ RLe(pOut[1].uniqueTableChance, Rat(1, 1))

\* C16: a parse in which at least one of the four sequences is non-empty is
\* returned as parsed; the catalog table replaces it only when all four are
\* empty.
C16_ReplacedOnlyWhenAllEmpty ==
  TablesParsed =>
    LET always == parseSection(pIn[1].always)
        uniques == parseSection(pIn[1].uniques)
        tertiary == parseSection(pIn[1].tertiary)
        main == MainFrom(AllLines(pIn[1]), always, uniques, tertiary)
    IN (Len(always) + Len(uniques) + Len(tertiary) + Len(main) > 0) =>
         /\ pOut[1].name = pIn[2]
         /\ pOut[1].always = always /\ pOut[1].uniques = uniques
         /\ pOut[1].tertiary = tertiary /\ pOut[1].main = main

(***************************************************************************)
(* Claims about the life of cache entries, checked under Spec.             *)
(***************************************************************************)
KeysOf(cache) == {cache[k].key : k \in 1..Len(cache)}
EntriesOf(cache) == {cache[k] : k \in 1..Len(cache)}

PlaceOf(cache, entry) == CHOOSE k \in 1..Len(cache) : cache[k] = entry

\* invocation p returns in this step
Returns(p) == calls'[p] # calls[p] /\ calls'[p].pc = "done"

\* invocation p returns in this step from one of the two places that store a table
Stores(p) == Returns(p) /\ calls'[p].path \in {"stored", "storedFallback"}

\* C13: when an invocation returns a non-error result, the cache holds an
\* entry for its lowercased monster key, also when the table came from the
\* catalog because the fetch threw.
C13_ResultIsCached ==
  [][\A p \in Procs :
       (Returns(p) /\ calls'[p].ret.kind = "result") =>
         calls'[p].cacheKey \in KeysOf(dropCache')]_vars

\* C14: an insertion into a cache of 100 entries evicts exactly one entry, one
\* of the smallest timestamp, and stores the new entry with the current
\* timestamp; an insertion into a cache of fewer entries evicts nothing.
C14_EvictsOldestAtCapacity ==
  [][\A p \in Procs :
       Stores(p) =>
         LET key == calls'[p].cacheKey
             stored == Entry(key, calls'[p].ret.dropData, now)
         IN IF Len(dropCache) >= 100
              THEN \E k \in 1..Len(dropCache) :
                     /\ \A j \in 1..Len(dropCache) :
                          dropCache[k].timestamp <= dropCache[j].timestamp
                     /\ EntriesOf(dropCache') =
                          {e \in EntriesOf(dropCache) :
                             e.key # key /\ e.key # dropCache[k].key} \cup {stored}
              ELSE EntriesOf(dropCache') =
                     {e \in EntriesOf(dropCache) : e.key # key} \cup {stored}]_vars

\* C15: a run of the sweep removes every entry aged one hour or more and
\* leaves every younger entry as it was, in the same order.
C15_SweepRemovesExactlyExpired ==
  [][sweepDue' # sweepDue =>
       /\ \A e \in EntriesOf(dropCache) :
            (e \in EntriesOf(dropCache')) <=> (now - e.timestamp < 60 * 60 * 1000)
       /\ EntriesOf(dropCache') \subseteq EntriesOf(dropCache)
       /\ \A j \in 1..(Len(dropCache') - 1) :
            PlaceOf(dropCache, dropCache'[j]) < PlaceOf(dropCache, dropCache'[j + 1])]_vars

\* the sweep has just run at one hour: the entry stored at 0 is gone, the one
\* stored later is kept
C15_Witness ==
  /\ now = 60 * 60 * 1000 /\ sweepDue = now + CLEANUP_INTERVAL
  /\ Len(dropCache) < MAX_CACHE_SIZE - 1
  /\ \E p, q \in Procs :
       /\ Done(p) /\ calls[p].path = "stored" /\ calls[p].cacheKey \notin KeysOf(dropCache)
       /\ Done(q) /\ calls[q].path = "stored" /\ calls[q].cacheKey \in KeysOf(dropCache)

\* C17: two invocations for one key that both miss and both fetch both
\* store; the cache never holds two entries for a key, and after each store
\* the key's entry carries the data and the timestamp of that store.
C17_LastWriteWins ==
  /\ [](\A j, k \in 1..Len(dropCache) : dropCache[j].key = dropCache[k].key => j = k)
  /\ [][\A p \in Procs :
          Stores(p) =>
            \E k \in 1..Len(dropCache') :
              dropCache'[k] = Entry(calls'[p].cacheKey, calls'[p].ret.dropData, now)]_vars

\* both invocations missed, fetched at the same clock reading and stored
C17_Witness ==
  /\ now = 0
  /\ \A p \in Procs : Done(p) /\ calls[p].path = "stored" /\ ~calls[p].found
  /\ calls[1].cacheKey = calls[2].cacheKey
  /\ Cardinality({k \in 1..Len(dropCache) : dropCache[k].key = calls[1].cacheKey}) = 1

(***************************************************************************)
(* Claims about the notable events and the choice of algorithm, checked    *)
(* under SpecSim.                                                          *)
(***************************************************************************)
UniqueItems == {simTable.uniques[k].item : k \in 1..Len(simTable.uniques)}

TertiaryItems == {simTable.tertiary[k].item : k \in 1..Len(simTable.tertiary)}

\* the events of uniqueDrops recorded for kill n that name an element of uniques
UniqueEventsOfKill(n) ==
  {k \in 1..Len(uniqueDrops) :
     uniqueDrops[k].killNumber = n /\ uniqueDrops[k].item \in UniqueItems}

\* C18: every entry of uniqueDrops has a killNumber in 1..killCount, in both
\* modes; in exact mode an entry is appended with the number of the kill
\* being rolled, so the killNumbers never decrease along uniqueDrops and, with
\* the unique table in use (no tertiary drop sharing an item with it), at
\* most one event per kill names an element of uniques.
C18_KillNumbers ==
  /\ [](\A k \in 1..Len(uniqueDrops) : uniqueDrops[k].killNumber \in 1..simKillCount)
  /\ [](~UsesOptimized(simKillCount) =>
          /\ \A k \in 1..(Len(uniqueDrops) - 1) :
               uniqueDrops[k].killNumber <= uniqueDrops[k + 1].killNumber
          /\ UsesUniqueTable(simTable) /\ UniqueItems \cap TertiaryItems = {} =>
               \A n \in 1..simKillCount : Cardinality(UniqueEventsOfKill(n)) <= 1)
  /\ [][~UsesOptimized(simKillCount) /\ uniqueDrops' # uniqueDrops =>
          /\ Len(uniqueDrops') = Len(uniqueDrops) + 1
          /\ SubSeq(uniqueDrops', 1, Len(uniqueDrops)) = uniqueDrops
          /\ uniqueDrops'[Len(uniqueDrops')].killNumber = simI + 1]_vars

\* an exact simulation of two kills has ended with a unique-table event in
\* each kill and a tertiary event beside the one of the last kill
C18_Witness ==
  /\ SimDone /\ ~UsesOptimized(simKillCount) /\ simKillCount = 2
  /\ UsesUniqueTable(simTable)
  /\ Len(uniqueDrops) = 3
  /\ uniqueDrops[1].killNumber = 1 /\ uniqueDrops[1].item \in UniqueItems
  /\ uniqueDrops[2].killNumber = 2 /\ uniqueDrops[2].item \in UniqueItems
  /\ uniqueDrops[3].killNumber = 2 /\ uniqueDrops[3].item \in TertiaryItems

\* a rarity of at least 1000
NotableRarity(drop) == ~RLt(drop.rarity, Rat(1000, 1))

\* the event names this drop: its item and its rarity text
Names(event, drop) == event.item = drop.item /\ event.rarity = drop.rarityText

\* a step of the tertiary part of either algorithm that awarded its drop
AwardsTertiary ==
  /\ simPhase \in {"tertiary", "optTertiary"}
  /\ loot' # loot

\* C19: in both modes every entry of uniqueDrops names an element of uniques
\* or a tertiary drop of rarity >= 1000; a tertiary drop of rarity < 1000
\* that is not also in uniques is never named; and the step that awards a
\* tertiary drop records events exactly when the rarity of the drop is >= 1000.
C19_TertiaryRecordedWhenRare ==
  /\ [](\A k \in 1..Len(uniqueDrops) :
          \/ \E j \in 1..Len(simTable.uniques) : Names(uniqueDrops[k], simTable.uniques[j])
          \/ \E j \in 1..Len(simTable.tertiary) :
               /\ Names(uniqueDrops[k], simTable.tertiary[j])
               /\ NotableRarity(simTable.tertiary[j]))
  /\ [](\A j \in 1..Len(simTable.tertiary) :
          ~NotableRarity(simTable.tertiary[j]) /\ simTable.tertiary[j].item \notin UniqueItems =>
            \A k \in 1..Len(uniqueDrops) : uniqueDrops[k].item # simTable.tertiary[j].item)
  /\ [][AwardsTertiary =>
          IF NotableRarity(simTable.tertiary[simIdx])
            THEN /\ Len(uniqueDrops') > Len(uniqueDrops)
                 /\ \A k \in (Len(uniqueDrops) + 1)..Len(uniqueDrops') :
                      Names(uniqueDrops'[k], simTable.tertiary[simIdx])
            ELSE uniqueDrops' = uniqueDrops]_vars

\* the approximation has ended with a 1/2002 pet awarded once and recorded
C19_Witness ==
  /\ SimDone /\ UsesOptimized(simKillCount)
  /\ Len(simTable.tertiary) = 1 /\ NotableRarity(simTable.tertiary[1])
  /\ LootOf(simTable.tertiary[1].item) = 1
  /\ \E k \in 1..Len(uniqueDrops) : Names(uniqueDrops[k], simTable.tertiary[1])

MainItems == {simTable.main[k].item : k \in 1..Len(simTable.main)}

AlwaysItems == {simTable.always[k].item : k \in 1..Len(simTable.always)}

\* the loot totals of a set of items, added up
RECURSIVE LootTotal(_)
LootTotal(items) ==
  IF items = {} THEN 0
  ELSE LET item == CHOOSE x \in items : TRUE
       IN LootOf(item) + LootTotal(items \ {item})

\* a non-empty main table of quantity-1 drops whose items are in no other sequence
UnitMainTable ==
  /\ Len(simTable.main) > 0
  /\ \A k \in 1..Len(simTable.main) : simTable.main[k].quantity = Range(1, 1)
  /\ MainItems \cap (AlwaysItems \cup UniqueItems \cup TertiaryItems) = {}

ExactPhases == {"always", "main", "unique", "tertiary", "endkill"}

OptimizedPhases == {"optAlways", "optMain", "optUnique", "optTertiary"}

\* C20: the per-kill loop runs only for kill counts up to 1000 and the
\* approximation only above 1000; for a kill count of 1..1000 and a non-empty
\* main table of quantity-1 drops whose items are in no other sequence, the
\* loot totals of the main items add up to killCount * mainTableRolls when
\* the simulation ends.
C20_ExactUpToThousand ==
  /\ simPhase \in ExactPhases => simKillCount <= 1000
  /\ simPhase \in OptimizedPhases => simKillCount > 1000
  /\ SimDone /\ simKillCount \in 1..1000 /\ UnitMainTable =>
       LootTotal(MainItems) = simKillCount * simTable.mainTableRolls

\* 1000 kills of a table rolled twice per kill have ended with 2000 coins
C20_Witness ==
  /\ SimDone /\ simKillCount = 1000
  /\ UnitMainTable /\ simTable.mainTableRolls = 2
  /\ LootOf("Coins") = 2000

\* the table has a drop in one of its four sequences
HasDrops(dropData) ==
  \/ dropData.always # <<>> \/ dropData.main # <<>>
  \/ dropData.uniques # <<>> \/ dropData.tertiary # <<>>

\* C21: every non-error result of simulateKills was simulated on a table
\* with at least one non-empty sequence among always, main, uniques and
\* tertiary, whether parsed, taken from the catalog or served from the cache;
\* and every table in the cache has at least one non-empty sequence.
C21_NeverSimulatesEmptyTable ==
  /\ \A p \in Procs :
       Done(p) /\ calls[p].ret.kind = "result" => HasDrops(calls[p].ret.dropData)
  /\ \A k \in 1..Len(dropCache) : HasDrops(dropCache[k].data)

\* a page without drops was answered from the catalog for Cerberus and stored,
\* and with an error for the goblin, which has no catalog table
C21_Witness ==
  \E p, q \in Procs :
    /\ Done(p) /\ calls[p].path = "storedFallback"
    /\ calls[p].ret.kind = "result" /\ HasDrops(calls[p].ret.dropData)
    /\ HasKey(dropCache, calls[p].cacheKey)
    /\ Done(q) /\ calls[q].path = "noDropData" /\ calls[q].ret.kind = "error"

\* a step in which simulateKills is invoked and makes its lookup
Looks == started' # started

\* a step of the sweep
Sweeps == sweepDue' # sweepDue

\* C22: the lookup at the start of simulateKills leaves the cache as it is,
\* on a hit (no entry added or removed, no timestamp refreshed) and on an
\* expired entry (not deleted); a hit on an entry younger than CACHE_DURATION
\* returns at once, without any fetch; and an entry leaves the cache only in
\* a step that stores under its key, that stores into a full cache, or that
\* sweeps.
C22_LookupReadOnly ==
  /\ [][Looks => dropCache' = dropCache]_vars
  /\ [][Looks =>
          \A p \in Procs :
            calls'[p] # calls[p] =>
              LET key == calls'[p].cacheKey
              IN IF HasKey(dropCache, key)
                      /\ now - CacheGet(dropCache, key).timestamp < CACHE_DURATION
                   THEN /\ calls'[p].pc = "done" /\ calls'[p].path = "cache"
                        /\ calls'[p].ret.kind = "result"
                        /\ calls'[p].ret.dropData = CacheGet(dropCache, key).data
                   ELSE calls'[p].pc = "search"]_vars
  /\ [][\A e \in EntriesOf(dropCache) \ EntriesOf(dropCache') :
          \/ Sweeps
          \/ \E p \in Procs :
               /\ Stores(p)
               /\ e.key = calls'[p].cacheKey \/ Len(dropCache) >= MAX_CACHE_SIZE]_vars

\* a lookup at one hour has found the entry stored at 0, gone on to the
\* search, and the entry is still in the cache with its timestamp
C22_Witness ==
  \E p \in Procs :
    /\ calls[p].pc = "search"
    /\ calls[p].found /\ calls[p].age >= CACHE_DURATION
    /\ HasKey(dropCache, calls[p].cacheKey)
    /\ now - CacheGet(dropCache, calls[p].cacheKey).timestamp = calls[p].age

\* the invocation of p returns an error value in this step
ReturnsError(p) == Returns(p) /\ calls'[p].ret.kind = "error"

\* C23: the step in which simulateKills returns an error value leaves the
\* cache as it is, and the cache changes only in a sweep or in the step of an
\* invocation that returns a result; so an invocation that ends in an error
\* has neither inserted nor evicted an entry.
C23_ErrorLeavesCache ==
  /\ [][\A p \in Procs : ReturnsError(p) => dropCache' = dropCache]_vars
  /\ [][dropCache' # dropCache =>
          \/ Sweeps
          \/ \E p \in Procs : Returns(p) /\ calls'[p].ret.kind = "result"]_vars

\* the cache is full after another invocation stored, and an invocation for a
\* page without drops and without a catalog table has returned an error: its
\* key is not in the cache and nothing was evicted
C23_Witness ==
  \E p, q \in Procs :
    /\ Done(q) /\ calls[q].path = "stored"
    /\ Done(p) /\ calls[p].path = "noDropData" /\ calls[p].ret.kind = "error"
    /\ ~HasKey(dropCache, calls[p].cacheKey)
    /\ Len(dropCache) = MAX_CACHE_SIZE
    /\ \A k \in 1..(MAX_CACHE_SIZE - 1) : dropCache[k] = PrefilledCache[k]

====
